---- MODULE Spec2Model ----
(***************************************************************************)
(* Model of the Pacman game server (app.py): the player registry           *)
(* (players_data), the telemetry store (learning_data) and the two chart   *)
(* handlers.  Python lists are sequences; list index k (0-based) is        *)
(* sequence position k + 1.                                                *)
(***************************************************************************)
EXTENDS Integers, Sequences, FiniteSets, TLC

(* ------------------------------ bounds -------------------------------- *)
\* largest registry the model grows
MaxPlayers == 3
\* largest registry the concurrent handlers grow
MaxRacePlayers == 2
\* longest telemetry series the model grows
MaxSeries == 3
\* seconds the wall clock advances during a run
MaxTicks == 2
\* plot requests carry arrays of 0..MaxShort elements, besides the long ones
MaxShort == 3

(* ------------------------------ state --------------------------------- *)
VARIABLES
  players_data,   \* the registry list
  learning_data,  \* the four telemetry series
  now,            \* wall clock read by datetime.now(), in whole seconds
  request,        \* the request the last handler served
  response,       \* what that handler returned
  chart,          \* the series that handler handed to the plotting calls
  thr,            \* per server thread: where its handler stands, and its locals
  overlapped      \* history: some handler started while another was running

vars == <<players_data, learning_data, now, request, response, chart, thr, overlapped>>

(* ------------------------- requests and bodies ------------------------ *)
\* dict.get(key, default)
Get(data, key, default) == IF key \in DOMAIN data THEN data[key] ELSE default

\* the JSON object holding val's entries for the keys sent
Body(sent, val) == [k \in sent |-> val[k]]

Names == {"Unknown", "pac"}
Classes == {"Unknown", "A"}

RegisterBodies ==
  { Body(sent, [name |-> n, class |-> c]) :
      sent \in SUBSET {"name", "class"}, n \in Names, c \in Classes }

NoRequest == [op |-> "none", arg |-> 0]
NoResponse == [code |-> 0, kind |-> "none", status |-> "none",
               message |-> "none", plot |-> "none"]
NoChart == <<>>

\* the threads of the development server (app.run serves each request in its own)
Threads == {1, 2}
Idle == [pc |-> "idle", name |-> "", class |-> "", current_time |-> 0,
         player_id |-> 0, idx |-> 0, id |-> 0, stop |-> 0]

\* jsonify(body) with an HTTP code
Json(code, status, message, plot) ==
  [code |-> code, kind |-> "json", status |-> status,
   message |-> message, plot |-> plot]

\* an exception leaves the handler: Flask answers 500 with an HTML error page
Unhandled(exception) ==
  [code |-> 500, kind |-> "html", status |-> "none",
   message |-> exception, plot |-> "none"]

(* ------------------------------ time ---------------------------------- *)
\* the instant the process starts: 11:59:59 on day 0
StartInstant == 12 * 3600 - 1

\* datetime.strftime('%Y-%m-%d %I:%M:%S %p')
strftime(t) ==
  LET sod == t % 86400
      h24 == sod \div 3600
  IN  [ymd |-> t \div 86400,
       I   |-> IF h24 % 12 = 0 THEN 12 ELSE h24 % 12,
       M   |-> (sod % 3600) \div 60,
       S   |-> sod % 60,
       p   |-> IF h24 < 12 THEN "AM" ELSE "PM"]

(* --------------------------- player registry -------------------------- *)
FirstMatchSkipFirst(players, player_name, player_class) ==
  LET hits == {i \in 2..Len(players) :
                 players[i].name = player_name /\ players[i].class = player_class}
  IN  IF hits = {} THEN 0 ELSE CHOOSE i \in hits : \A k \in hits : i <= k

\* the loop of register_player: position of the first matching record, 0 if none
FirstMatch(players, player_name, player_class) ==
  LET hits == {i \in 1..Len(players) :
                 players[i].name = player_name /\ players[i].class = player_class}
  IN  IF hits = {} THEN 0 ELSE CHOOSE i \in hits : \A k \in hits : i <= k

NewIdNoIncrement(players) == Len(players)

\* id given to an appended record
NewId(players) == Len(players) + 1

\* the record register_player appends
NewPlayer(players, player_name, player_class, current_time) ==
  [id |-> NewId(players), name |-> player_name, class |-> player_class,
   registered_on |-> current_time, last_login |-> current_time]

RegisteredResetsBoth(players, player_name, player_class, current_time) ==
  LET i == FirstMatch(players, player_name, player_class)
  IN  IF i # 0
      THEN [players EXCEPT ![i].last_login = current_time,
                           ![i].registered_on = current_time]
      ELSE Append(players, NewPlayer(players, player_name, player_class, current_time))

\* players_data after register_player
Registered(players, player_name, player_class, current_time) ==
  LET i == FirstMatch(players, player_name, player_class)
  IN  IF i # 0
      THEN [players EXCEPT ![i].last_login = current_time]
      ELSE Append(players, NewPlayer(players, player_name, player_class, current_time))

register_player ==
  \E data \in RegisterBodies :
    LET player_name  == Get(data, "name", "Unknown")
        player_class == Get(data, "class", "Unknown")
        current_time == strftime(now)
    IN  /\ \/ FirstMatch(players_data, player_name, player_class) # 0
           \/ Len(players_data) < MaxPlayers
        /\ players_data' = Registered(players_data, player_name, player_class, current_time)
        /\ request' = [op |-> "register_player", arg |-> data]
        /\ response' = Json(200, "success", "none", "none")
        /\ UNCHANGED <<learning_data, now, chart, thr, overlapped>>

\* the loop of delete_player: position of the first record with that id, 0 if none
FindId(players, player_id) ==
  LET hits == {i \in 1..Len(players) : players[i].id = player_id}
  IN  IF hits = {} THEN 0 ELSE CHOOSE i \in hits : \A k \in hits : i <= k

DelAtNext(players, i) ==
  [k \in 1..(Len(players) - 1) |-> IF k <= i THEN players[k] ELSE players[k + 1]]

\* del players_data[i]
DelAt(players, i) ==
  [k \in 1..(Len(players) - 1) |-> IF k < i THEN players[k] ELSE players[k + 1]]

ReindexAfter(players, i) ==
  [k \in 1..Len(players) |-> IF k > i THEN [players[k] EXCEPT !.id = k] ELSE players[k]]

\* for j in range(i, len(players_data)): players_data[j]['id'] = j + 1
Reindex(players, i) ==
  [k \in 1..Len(players) |-> IF k >= i THEN [players[k] EXCEPT !.id = k] ELSE players[k]]

delete_player ==
  \E player_id \in 0..(MaxPlayers + 1) :
    LET i == FindId(players_data, player_id)
    IN  /\ request' = [op |-> "delete_player", arg |-> player_id]
        /\ \/ /\ i # 0
              /\ players_data' = Reindex(DelAt(players_data, i), i)
              /\ response' = Json(200, "success", "Player deleted successfully", "none")
           \/ /\ i = 0
              /\ players_data' = players_data
              /\ response' = Json(404, "error", "Player not found", "none")
        /\ UNCHANGED <<learning_data, now, chart, thr, overlapped>>

\* a second of wall-clock time passes
Tick ==
  /\ now < StartInstant + MaxTicks
  /\ now' = now + 1
  /\ UNCHANGED <<players_data, learning_data, request, response, chart, thr, overlapped>>

(* --------------------------- specification ---------------------------- *)
Init ==
  /\ players_data = <<>>
  /\ learning_data = [generations |-> <<>>, fitness_scores |-> <<>>,
                      dots_eaten |-> <<>>, scores |-> <<>>]
  /\ now = StartInstant
  /\ request = NoRequest
  /\ response = NoResponse
  /\ chart = NoChart
  /\ thr = [t \in Threads |-> Idle]
  /\ overlapped = FALSE

Next == register_player \/ delete_player \/ Tick

Spec == Init /\ [][Next]_vars

(* --------------------------- telemetry store -------------------------- *)
Min2(a, b) == IF a <= b THEN a ELSE b
Max2(a, b) == IF a >= b THEN a ELSE b

\* the series of learning_data, each with the body key appended to it, in the
\* order save_generation_data appends them
SeriesKeys ==
  << <<"generations", "generation">>, <<"fitness_scores", "fitness">>,
     <<"dots_eaten", "dots_eaten">>, <<"scores", "score">> >>

GenerationBodies ==
  { Body(sent, [generation |-> g, fitness |-> 5, dots_eaten |-> 7, score |-> 9]) :
      sent \in SUBSET {"generation", "fitness", "dots_eaten", "score"}, g \in {1, 2} }

\* position in SeriesKeys of the first data[key] that raises KeyError, 5 if none
FirstMissing(data) ==
  LET miss == {k \in 1..Len(SeriesKeys) : SeriesKeys[k][2] \notin DOMAIN data}
  IN  IF miss = {} THEN Len(SeriesKeys) + 1
      ELSE CHOOSE k \in miss : \A m \in miss : k <= m

\* learning_data after the appends that ran before the first KeyError
Saved(ld, data) ==
  [f \in DOMAIN ld |->
     LET k == CHOOSE x \in 1..Len(SeriesKeys) : SeriesKeys[x][1] = f
     IN  IF k < FirstMissing(data) THEN Append(ld[f], data[SeriesKeys[k][2]]) ELSE ld[f]]

save_generation_data ==
  \E data \in GenerationBodies :
    /\ Len(learning_data.generations) < MaxSeries
    /\ learning_data' = Saved(learning_data, data)
    /\ request' = [op |-> "save_generation_data", arg |-> data]
    /\ response' = IF FirstMissing(data) > Len(SeriesKeys)
                   THEN Json(200, "success", "none", "none")
                   ELSE Unhandled("KeyError")
    /\ chart' = NoChart
    /\ UNCHANGED <<players_data, now, thr, overlapped>>

MinLengthOfGenerations(ld) == Len(ld.generations)

\* min_length of get_learning_curve
MinLength(ld) ==
  Min2(Min2(Len(ld.generations), Len(ld.fitness_scores)),
       Min2(Len(ld.dots_eaten), Len(ld.scores)))

\* list[:n]
Prefix(list, n) == SubSeq(list, 1, Min2(n, Len(list)))

\* the x and y series of the three subplots
CurveSeries(ld) ==
  LET min_length == MinLength(ld)
  IN  << Prefix(ld.generations, min_length), Prefix(ld.fitness_scores, min_length),
         Prefix(ld.dots_eaten, min_length), Prefix(ld.scores, min_length) >>

\* plt.plot(x, y) raises ValueError unless x and y have the same length
Plottable(x, y) == Len(x) = Len(y)

get_learning_curve ==
  /\ request' = [op |-> "get_learning_curve", arg |-> 0]
  /\ IF learning_data.generations = <<>>
     THEN /\ response' = Json(200, "error", "No learning data available yet", "none")
          /\ chart' = NoChart
     ELSE IF MinLength(learning_data) = 0
     THEN /\ response' = Json(200, "error", "Not enough learning data collected yet", "none")
          /\ chart' = NoChart
     ELSE LET c == CurveSeries(learning_data)
          IN  /\ chart' = c
              /\ response' = IF \A k \in 2..4 : Plottable(c[1], c[k])
                             THEN Json(200, "success", "none", "base64")
                             ELSE Unhandled("ValueError")
  /\ UNCHANGED <<players_data, learning_data, now, thr, overlapped>>

NextTelemetry == save_generation_data \/ get_learning_curve

SpecTelemetry == Init /\ [][NextTelemetry]_vars

(* ------------------------- reward / state plot ------------------------ *)
\* `if min_length > 500`
SampleThreshold == 500
\* `min_length // 500`
SampleTarget == 500
window_size == 5

\* the Python list with the entries of f, a function on 1..n
List(f) == SubSeq(f, 1, Len(f))

\* list[::step]
Stride(list, step) ==
  List([j \in 1..((Len(list) + step - 1) \div step) |-> list[(j - 1) * step + 1]])

\* the value of a / b, kept as the exact fraction
Quot(a, b) == [num |-> a, den |-> b]

RECURSIVE SeqSum(_)
\* sum(list)
SeqSum(list) == IF list = <<>> THEN 0 ELSE list[1] + SeqSum(Tail(list))

\* list[lo:hi] for 0 <= lo <= hi <= len(list)
Slice(list, lo, hi) == SubSeq(list, lo + 1, hi)

\* start_idx at 0-based index i
start_idx(i) == Max2(0, i - window_size \div 2)

end_idx_exclusive_of_last(n, i) == Min2(n, i + window_size \div 2)

\* end_idx at 0-based index i of a list of n rewards
end_idx(n, i) == Min2(n, i + window_size \div 2 + 1)

\* the moving_avg list built from rewards
MovingAvg(rewards) ==
  List([k \in 1..Len(rewards) |->
          LET i == k - 1
              lo == start_idx(i)
              hi == end_idx(Len(rewards), i)
          IN  Quot(SeqSum(Slice(rewards, lo, hi)), hi - lo)])

\* episodes, rewards and states as they stand after the sampling block
Sampled(episodes, rewards, states) ==
  LET min_length == Min2(Len(episodes), Min2(Len(rewards), Len(states)))
  IN  IF min_length > SampleThreshold
      THEN LET sample_rate == Max2(1, min_length \div SampleTarget)
               e == Stride(episodes, sample_rate)
               r == Stride(rewards, sample_rate)
               s == Stride(states, sample_rate)
           IN  IF e[Len(e)] # min_length
               THEN <<Append(e, min_length), Append(r, r[Len(r)]), Append(s, s[Len(s)])>>
               ELSE <<e, r, s>>
      ELSE <<episodes, rewards, states>>

\* what generate_learning_plot returns for a body and what it plots
LearningPlot(data) ==
  LET episodes == Get(data, "episodes", <<>>)
      rewards  == Get(data, "rewards", <<>>)
      states   == Get(data, "states", <<>>)
      min_length == Min2(Len(episodes), Min2(Len(rewards), Len(states)))
      smp == Sampled(episodes, rewards, states)
      c == <<smp[1], smp[2], MovingAvg(smp[2]), smp[3]>>
  IN  IF DOMAIN data = {}
      THEN [response |-> Json(200, "error", "No data provided", "none"), chart |-> NoChart]
      ELSE IF episodes = <<>> \/ rewards = <<>> \/ states = <<>>
      THEN [response |-> Json(200, "error", "Missing required data", "none"), chart |-> NoChart]
      ELSE IF min_length = 0
      THEN [response |-> Json(200, "error", "Empty data arrays", "none"), chart |-> NoChart]
      ELSE [response |-> IF \A k \in 2..4 : Plottable(c[1], c[k])
                         THEN Json(200, "success", "none", "data-uri")
                         ELSE Unhandled("ValueError"),
            chart |-> c]

\* lengths of the arrays a client posts
PlotLens == (0..MaxShort) \cup {10, SampleThreshold + 1, 2 * SampleThreshold}

\* episode numbers counted from first
EpisodesOf(n, first) == List([i \in 1..n |-> first + i - 1])
RewardsOf(n) == List([i \in 1..n |-> ((i * i) % 7) - 3 + i])
StatesOf(n) == List([i \in 1..n |-> 2 * i])

PlotBody(sent, le, lr, ls, first) ==
  Body(sent, [episodes |-> EpisodesOf(le, first), rewards |-> RewardsOf(lr),
              states |-> StatesOf(ls)])

\* the handler answers the posted request
generate_learning_plot ==
  /\ request.op = "generate_learning_plot"
  /\ response = NoResponse
  /\ response' = LearningPlot(request.arg).response
  /\ chart' = LearningPlot(request.arg).chart
  /\ UNCHANGED <<players_data, learning_data, now, request, thr, overlapped>>

\* the handler is stateless: one posted request
InitPlot ==
  /\ players_data = <<>>
  /\ learning_data = [generations |-> <<>>, fitness_scores |-> <<>>,
                      dots_eaten |-> <<>>, scores |-> <<>>]
  /\ now = StartInstant
  /\ \E sent \in SUBSET {"episodes", "rewards", "states"} :
       \E le \in PlotLens, lr \in PlotLens, ls \in PlotLens, first \in {0, 1} :
         request = [op |-> "generate_learning_plot",
                    arg |-> PlotBody(sent, le, lr, ls, first)]
  /\ response = NoResponse
  /\ chart = NoChart
  /\ thr = [t \in Threads |-> Idle]
  /\ overlapped = FALSE

NextPlot == generate_learning_plot

SpecPlot == InitPlot /\ [][NextPlot]_vars

(* ------------------- registry handlers run concurrently --------------- *)
\* Each action below is one stretch of a handler that runs without a thread
\* switch; between two of them any other thread may run.

Busy(t) == thr[t].pc # "idle"

\* thread t leaves its handler with this response (of the request only the
\* route is kept here)
Return(t, op, resp) ==
  /\ thr' = [thr EXCEPT ![t] = Idle]
  /\ request' = [op |-> op, arg |-> 0]
  /\ response' = resp

\* register_player up to the start of the loop over players_data
RegisterBegin(t) ==
  \E data \in RegisterBodies :
    /\ ~Busy(t)
    /\ Len(players_data) + Cardinality({u \in Threads : thr[u].pc \in {"r_scan", "r_new", "r_append"}})
         < MaxRacePlayers
    /\ thr' = [thr EXCEPT ![t] = [Idle EXCEPT !.pc = "r_scan",
                                              !.name = Get(data, "name", "Unknown"),
                                              !.class = Get(data, "class", "Unknown"),
                                              !.current_time = strftime(now)]]
    /\ overlapped' = (overlapped \/ \E u \in Threads \ {t} : Busy(u))
    /\ UNCHANGED <<players_data, learning_data, now, request, response, chart>>

\* one iteration of `for player in players_data`, or the end of the loop
RegisterScan(t) ==
  /\ thr[t].pc = "r_scan"
  /\ IF thr[t].idx < Len(players_data)
     THEN LET player == players_data[thr[t].idx + 1]
          IN  IF player.name = thr[t].name /\ player.class = thr[t].class
              THEN /\ players_data' = [players_data EXCEPT
                                         ![thr[t].idx + 1].last_login = thr[t].current_time]
                   /\ Return(t, "register_player",
                             Json(200, "success", "none", "none"))
              ELSE /\ thr' = [thr EXCEPT ![t].idx = thr[t].idx + 1]
                   /\ UNCHANGED <<players_data, request, response>>
     ELSE /\ thr' = [thr EXCEPT ![t].pc = "r_new"]
          /\ UNCHANGED <<players_data, request, response>>
  /\ UNCHANGED <<learning_data, now, chart, overlapped>>

\* the dict literal is built: 'id': len(players_data) + 1
RegisterNewId(t) ==
  /\ thr[t].pc = "r_new"
  /\ thr' = [thr EXCEPT ![t].pc = "r_append", ![t].id = NewId(players_data)]
  /\ UNCHANGED <<players_data, learning_data, now, request, response, chart, overlapped>>

\* players_data.append(...) and the return
RegisterAppend(t) ==
  /\ thr[t].pc = "r_append"
  /\ players_data' = Append(players_data,
                            [id |-> thr[t].id, name |-> thr[t].name, class |-> thr[t].class,
                             registered_on |-> thr[t].current_time,
                             last_login |-> thr[t].current_time])
  /\ Return(t, "register_player",
            Json(200, "success", "none", "none"))
  /\ UNCHANGED <<learning_data, now, chart, overlapped>>

\* delete_player up to the start of the loop over enumerate(players_data)
DeleteBegin(t) ==
  \E player_id \in 0..(MaxRacePlayers + 1) :
    /\ ~Busy(t)
    /\ thr' = [thr EXCEPT ![t] = [Idle EXCEPT !.pc = "d_scan", !.player_id = player_id]]
    /\ overlapped' = (overlapped \/ \E u \in Threads \ {t} : Busy(u))
    /\ UNCHANGED <<players_data, learning_data, now, request, response, chart>>

\* one iteration of the search loop, or its end without a match
DeleteScan(t) ==
  /\ thr[t].pc = "d_scan"
  /\ IF thr[t].idx < Len(players_data)
     THEN /\ thr' = IF players_data[thr[t].idx + 1].id = thr[t].player_id
                    THEN [thr EXCEPT ![t].pc = "d_del"]
                    ELSE [thr EXCEPT ![t].idx = thr[t].idx + 1]
          /\ UNCHANGED <<request, response>>
     ELSE Return(t, "delete_player",
                 Json(404, "error", "Player not found", "none"))
  /\ UNCHANGED <<players_data, learning_data, now, chart, overlapped>>

\* del players_data[i]; range(i, len(players_data)) is built
DeleteRemove(t) ==
  /\ thr[t].pc = "d_del"
  /\ IF thr[t].idx < Len(players_data)
     THEN /\ players_data' = DelAt(players_data, thr[t].idx + 1)
          /\ thr' = [thr EXCEPT ![t].pc = "d_renum", ![t].stop = Len(players_data) - 1]
          /\ UNCHANGED <<request, response>>
     ELSE /\ Return(t, "delete_player", Unhandled("IndexError"))
          /\ UNCHANGED players_data
  /\ UNCHANGED <<learning_data, now, chart, overlapped>>

\* one iteration of the re-index loop (idx is j), or its end and the return
DeleteRenumber(t) ==
  /\ thr[t].pc = "d_renum"
  /\ IF thr[t].idx < thr[t].stop
     THEN IF thr[t].idx < Len(players_data)
          THEN /\ players_data' = [players_data EXCEPT ![thr[t].idx + 1].id = thr[t].idx + 1]
               /\ thr' = [thr EXCEPT ![t].idx = thr[t].idx + 1]
               /\ UNCHANGED <<request, response>>
          ELSE /\ Return(t, "delete_player", Unhandled("IndexError"))
               /\ UNCHANGED players_data
     ELSE /\ Return(t, "delete_player",
                    Json(200, "success", "Player deleted successfully", "none"))
          /\ UNCHANGED players_data
  /\ UNCHANGED <<learning_data, now, chart, overlapped>>

NextRace ==
  \E t \in Threads :
    \/ RegisterBegin(t) \/ RegisterScan(t) \/ RegisterNewId(t) \/ RegisterAppend(t)
    \/ DeleteBegin(t) \/ DeleteScan(t) \/ DeleteRemove(t) \/ DeleteRenumber(t)

SpecRace == Init /\ [][NextRace]_vars

(* ----------------------- registry, one at a time ---------------------- *)
\* C1: after any sequence of register and delete operations run one at a
\* time from the empty registry, the record at list position i has id i, so
\* the ids are exactly 1..N with no gap and no duplicate.
C1_DenseIds ==
  /\ \A i \in 1..Len(players_data) : players_data[i].id = i
  /\ {players_data[i].id : i \in 1..Len(players_data)} = 1..Len(players_data)
  /\ Cardinality({players_data[i].id : i \in 1..Len(players_data)}) = Len(players_data)

\* a delete of a record that was not the last one has just renumbered
C1_Witness ==
  /\ request.op = "delete_player"
  /\ response.code = 200
  /\ Len(players_data) >= 2
  /\ request.arg <= Len(players_data)

\* C2: after any sequence of register and delete operations run one at a
\* time, no two records share a (name, class) pair, also when a field is
\* omitted and defaults to 'Unknown'.
C2_UniquePairs ==
  \A i, j \in 1..Len(players_data) :
    (players_data[i].name = players_data[j].name
       /\ players_data[i].class = players_data[j].class) => i = j

\* a body with both fields omitted was registered while ('Unknown',
\* 'Unknown') was already present from an earlier second
C2_Witness ==
  /\ request.op = "register_player"
  /\ DOMAIN request.arg = {}
  /\ Len(players_data) >= 2
  /\ \E i \in 1..Len(players_data) :
       /\ players_data[i].name = "Unknown"
       /\ players_data[i].class = "Unknown"
       /\ players_data[i].last_login # players_data[i].registered_on

\* C3: register of a pair already present updates only that record's
\* last_login to the time of this registration (id, name, class,
\* registered_on, the count, the order and all other records unchanged) and
\* leaves exactly one record for the pair; register of a new pair appends one
\* record at the end with id = previous count + 1 and registered_on =
\* last_login; register always returns success.
C3_RegisterEffect ==
  [][ (request'.op = "register_player" /\ now' = now) =>
        LET n == Get(request'.arg, "name", "Unknown")
            c == Get(request'.arg, "class", "Unknown")
            old == {i \in 1..Len(players_data) :
                      players_data[i].name = n /\ players_data[i].class = c}
            new == {i \in 1..Len(players_data') :
                      players_data'[i].name = n /\ players_data'[i].class = c}
            secs(ft) == ft.ymd * 86400 + ((ft.I % 12) + (IF ft.p = "PM" THEN 12 ELSE 0)) * 3600
                          + ft.M * 60 + ft.S
        IN  /\ response'.status = "success" /\ response'.code = 200
            /\ Cardinality(new) = 1
            /\ old # {} =>
                 /\ Len(players_data') = Len(players_data)
                 /\ new = old
                 /\ \A i \in 1..Len(players_data) :
                      /\ players_data'[i].id = players_data[i].id
                      /\ players_data'[i].name = players_data[i].name
                      /\ players_data'[i].class = players_data[i].class
                      /\ players_data'[i].registered_on = players_data[i].registered_on
                      /\ i \notin old => players_data'[i].last_login = players_data[i].last_login
                      /\ i \in old =>
                           /\ secs(players_data'[i].last_login) = now
                           /\ secs(players_data[i].last_login) <= secs(players_data'[i].last_login)
            /\ old = {} =>
                 /\ Len(players_data') = Len(players_data) + 1
                 /\ SubSeq(players_data', 1, Len(players_data)) = players_data
                 /\ new = {Len(players_data')}
                 /\ players_data'[Len(players_data')].id = Len(players_data) + 1
                 /\ players_data'[Len(players_data')].registered_on
                      = players_data'[Len(players_data')].last_login
                 /\ secs(players_data'[Len(players_data')].last_login) = now
    ]_vars

\* a pair registered in an earlier second has just been registered again
C3_Witness ==
  /\ request.op = "register_player"
  /\ Len(players_data) >= 2
  /\ \E i \in 1..(Len(players_data) - 1) :
       /\ players_data[i].name = Get(request.arg, "name", "Unknown")
       /\ players_data[i].class = Get(request.arg, "class", "Unknown")
       /\ players_data[i].last_login = strftime(now)
       /\ players_data[i].registered_on # players_data[i].last_login

\* C4: delete(id) of an id some record has removes exactly that record,
\* decrements the id of every later record, leaves earlier records, the order
\* and the other fields unchanged and returns success; delete of an id no
\* record has returns 404 with status error and leaves the registry unchanged.
C4_DeleteEffect ==
  [][ (request'.op = "delete_player" /\ now' = now) =>
        LET hit == {i \in 1..Len(players_data) : players_data[i].id = request'.arg}
        IN  /\ hit # {} =>
                 /\ Cardinality(hit) = 1
                 /\ response'.code = 200 /\ response'.status = "success"
                 /\ Len(players_data') = Len(players_data) - 1
                 /\ \A i \in hit :
                      /\ \A k \in 1..(i - 1) : players_data'[k] = players_data[k]
                      /\ \A k \in i..Len(players_data') :
                           /\ players_data'[k].id = players_data[k + 1].id - 1
                           /\ players_data'[k].name = players_data[k + 1].name
                           /\ players_data'[k].class = players_data[k + 1].class
                           /\ players_data'[k].registered_on = players_data[k + 1].registered_on
                           /\ players_data'[k].last_login = players_data[k + 1].last_login
            /\ hit = {} =>
                 /\ response'.code = 404 /\ response'.status = "error"
                 /\ players_data' = players_data
    ]_vars

\* id 2 has just been deleted from a registry of three, leaving ids 1, 2
C4_Witness ==
  /\ request.op = "delete_player"
  /\ request.arg = 2
  /\ response.code = 200
  /\ Len(players_data) = 2
  /\ players_data[1].id = 1 /\ players_data[2].id = 2

(* ------------------------------ telemetry ----------------------------- *)
\* C5: every request whose JSON body lacks a required field is answered with
\* a JSON body carrying a status field; no such request ends in an unhandled
\* fault.
C5_MalformedAnsweredAsJson ==
  (/\ request.op = "save_generation_data"
   /\ {"generation", "fitness", "dots_eaten", "score"} \ DOMAIN request.arg # {})
    => /\ response.kind = "json"
       /\ response.status \in {"success", "error"}
       /\ response.code # 500

C6_FinalPointKept ==
  (/\ request.op = "generate_learning_plot"
   /\ response # NoResponse
   /\ DOMAIN request.arg = {"episodes", "rewards", "states"}
   /\ Len(request.arg.episodes) > 500
   /\ Len(request.arg.rewards) = Len(request.arg.episodes)
   /\ Len(request.arg.states) = Len(request.arg.episodes))
    => /\ chart # NoChart
       /\ chart[1][Len(chart[1])] = request.arg.episodes[Len(request.arg.episodes)]
       /\ chart[2][Len(chart[2])] = request.arg.rewards[Len(request.arg.rewards)]
       /\ chart[4][Len(chart[4])] = request.arg.states[Len(request.arg.states)]

\* C7: for any three non-empty input arrays the plotted episodes, rewards,
\* moving average and states all have the same length, and none is longer
\* than the shortest input array.
C7_TruncatedToCommonLength ==
  (/\ request.op = "generate_learning_plot"
   /\ response # NoResponse
   /\ DOMAIN request.arg = {"episodes", "rewards", "states"}
   /\ \A k \in DOMAIN request.arg : request.arg[k] # <<>>)
    => /\ chart # NoChart
       /\ \A k \in 1..4 :
            /\ Len(chart[k]) = Len(chart[1])
            /\ Len(chart[k]) <= Len(request.arg.episodes)
            /\ Len(chart[k]) <= Len(request.arg.rewards)
            /\ Len(chart[k]) <= Len(request.arg.states)

\* C9: the moving average has one entry per plotted reward; entry i is the
\* sum of the rewards at indices max(0, i-2) .. min(n-1, i+2) divided by the
\* number of those indices, and entry 0 of a 10-element sequence averages
\* elements 0, 1 and 2 only.
C9_MovingAverage ==
  (request.op = "generate_learning_plot" /\ chart # NoChart) =>
    LET r == chart[2]
        avg == chart[3]
        n == Len(r)
        term(i, d) == IF i + d >= 1 /\ i + d <= n THEN r[i + d] ELSE 0
    IN  /\ Len(avg) = n
        /\ \A i \in 1..n :
             /\ avg[i].den = Cardinality({d \in (0 - 2)..2 : i + d >= 1 /\ i + d <= n})
             /\ avg[i].num = term(i, 0 - 2) + term(i, 0 - 1) + term(i, 0) + term(i, 1) + term(i, 2)
        /\ n = 10 => avg[1] = [num |-> r[1] + r[2] + r[3], den |-> 3]

\* a 10-element reward sequence has been averaged and plotted
C9_Witness ==
  /\ request.op = "generate_learning_plot"
  /\ response.status = "success"
  /\ Len(chart[2]) = 10
  /\ Len(chart[3]) = 10
  /\ chart[3][1].den = 3
  /\ chart[3][5].den = 5

(* ---------------------------- concurrency ----------------------------- *)
\* C10: with no locking, handlers whose steps interleave can leave the
\* registry with two records for one (name, class) pair, two records with one
\* id, or ids that are not 1..N; as long as no handler has started while
\* another was running, the registry at rest has none of these.
C10_RaceOnlyWhenOverlapped ==
  (~overlapped /\ \A t \in Threads : ~Busy(t)) =>
    /\ \A i \in 1..Len(players_data) : players_data[i].id = i
    /\ \A i, j \in 1..Len(players_data) :
         (players_data[i].name = players_data[j].name
            /\ players_data[i].class = players_data[j].class) => i = j

\* two register handlers overlapped and both appended the same pair under the
\* same id: a duplicate pair, a duplicate id, and ids that are not 1..N
C10_Witness ==
  /\ overlapped
  /\ \A t \in Threads : ~Busy(t)
  /\ \E i, j \in 1..Len(players_data) :
       /\ i # j
       /\ players_data[i].name = players_data[j].name
       /\ players_data[i].class = players_data[j].class
       /\ players_data[i].id = players_data[j].id
  /\ {players_data[i].id : i \in 1..Len(players_data)} # 1..Len(players_data)

====
